---- MODULE Spec2Model ----
(***************************************************************************)
(* api-diff-checker: the fetch pipeline (fetchApiResponses.ts) and the     *)
(* compare pipeline (compareApiResponses.ts) as state machines over a      *)
(* small file system.                                                      *)
(*                                                                         *)
(* A path is a sequence of segments (<<".", "apiResponses", "v1">> is      *)
(* ./apiResponses/v1); a file's content is the sequence of its text lines. *)
(* A JSON value is a record [kind, lit, members]: lit is the literal text  *)
(* of a scalar, members the (key, string value) pairs of an object.        *)
(***************************************************************************)
EXTENDS Integers, Sequences, FiniteSets, TLC

VARIABLES
    \* the file system and the process arguments
    dirs,        \* set of existing directories (normalised paths)
    files,       \* function: normalised path of an existing file -> its lines
    configFile,  \* the config document at configPath: [exists, valid, apis]
    args,        \* process.argv.slice(2) of the fetch entry point
    \* fetchApiResponses.ts: main / fetchAndSaveApiResponses
    pc,          \* position of the fetch process
    config,      \* the loaded config document's apis (const config)
    i,           \* 1-based position of the for..of loop over config.apis
    inflight,    \* axios requests issued and not yet settled
    response,    \* const response of the current iteration
    calls,       \* this run's settled calls: [name, ok, body] in call order
    started,     \* number of axios requests issued in this run
    saved,       \* number of saveApiResponseToFile calls in this run
    result,      \* what fetchAndSaveApiResponses returned
    exitCode,    \* exit code of the fetch entry point (-1: still running)
    runs,        \* number of fetch runs started so far
    fsOps,       \* this run's file system calls: [op, path] in call order
    \* compareApiResponses.ts: main / compareDirectories
    cargs,       \* process.argv.slice(2) of the compare entry point
    cpc,         \* position of the compare process
    allFiles,    \* the Set allFiles, in insertion (iteration) order
    ci,          \* 1-based position of allFiles.forEach
    reports,     \* console.log / console.error lines, in order
    visits,      \* per visited filename: [file, outcome]
    cexit        \* exit code of the compare entry point (-1: still running)

fetchVars == <<configFile, args, pc, config, i, inflight, response, calls,
               started, saved, result, exitCode, runs, fsOps>>
cmpVars == <<cargs, cpc, allFiles, ci, reports, visits, cexit>>
vars == <<dirs, files, fetchVars, cmpVars>>

(***************************************************************************)
(* Bounds                                                                  *)
(***************************************************************************)
MaxApis == 2     \* longest config.apis list explored
MaxRuns == 2     \* fetch runs into the same output directory

(***************************************************************************)
(* JSON values                                                             *)
(***************************************************************************)
JNull == [kind |-> "null", lit |-> "null", members |-> <<>>]
JFalse == [kind |-> "boolean", lit |-> "false", members |-> <<>>]
JNum0 == [kind |-> "number", lit |-> "0", members |-> <<>>]
JStr(s) == [kind |-> "string", lit |-> s, members |-> <<>>]
JObj(ms) == [kind |-> "object", lit |-> "", members |-> ms]
Message(s) == JObj(<<[key |-> "message", val |-> s]>>)

\* JavaScript ToBoolean, as used by `if (response)` and `!response1`
Truthy(v) ==
    ~ \/ v.kind = "null"
      \/ (v.kind = "boolean" /\ v.lit = "false")
      \/ (v.kind = "number" /\ v.lit = "0")
      \/ (v.kind = "string" /\ v.lit = "")

Quote(s) == "\"" \o s \o "\""

RECURSIVE MemberLines(_)
MemberLines(ms) ==
    IF ms = <<>> THEN <<>>
    ELSE LET m == Head(ms)
             line == "  " \o Quote(m.key) \o ": " \o Quote(m.val)
         IN  <<IF Len(ms) > 1 THEN line \o "," ELSE line>> \o MemberLines(Tail(ms))

\* JSON.stringify(v, null, 2), as text lines
Stringify2(v) ==
    IF v.kind = "object"
    THEN IF v.members = <<>> THEN <<"{}">>
         ELSE <<"{">> \o MemberLines(v.members) \o <<"}">>
    ELSE IF v.kind = "string" THEN <<Quote(v.lit)>>
    ELSE <<v.lit>>

(***************************************************************************)
(* Paths and the file system                                               *)
(***************************************************************************)
IsNotDot(seg) == seg # "."

\* path.normalize: "." segments vanish (".." is not explored)
Normalize(p) ==
    LET q == SelectSeq(p, IsNotDot) IN IF q = <<>> THEN <<".">> ELSE q

\* path.join(dir, file)
PathJoin(dir, file) == Normalize(dir \o <<file>>)

RECURSIVE PathStr(_)
\* the path as the string the program prints
PathStr(p) ==
    IF Len(p) = 0 THEN ""
    ELSE IF Len(p) = 1 THEN p[1]
    ELSE p[1] \o "/" \o PathStr(Tail(p))

\* fs.existsSync
ExistsSync(p) == Normalize(p) \in dirs \/ Normalize(p) \in DOMAIN files

\* fs.writeFileSync(p, lines): creates or replaces the file
WriteFile(fs, p, lines) ==
    [q \in DOMAIN fs \cup {Normalize(p)} |->
        IF q = Normalize(p) THEN lines ELSE fs[q]]

\* fs.appendFileSync(p, line + "\n"): creates the file when it is absent
AppendFile(fs, p, line) ==
    WriteFile(fs, p,
        IF Normalize(p) \in DOMAIN fs THEN Append(fs[Normalize(p)], line)
        ELSE <<line>>)

\* the directories fs.mkdirSync(p, {recursive: true}) makes sure exist
WithParents(p) == {SubSeq(Normalize(p), 1, k) : k \in 1..Len(Normalize(p))}

\* one file system call, with the path as the program passes it
FsOp(op, p) == [op |-> op, path |-> PathStr(p)]

(***************************************************************************)
(* Inputs of the fetch pipeline                                            *)
(***************************************************************************)
CsvHeader == "API-mei,response-jikan(ms)"   \* the header text, in ASCII
CsvName == "response_times.csv"
EmptyObject == "{}"                         \* the {} of `api.params || {}`

\* endpoint configs of the batch runs: params is <<>> when the endpoint has
\* no params; two endpoints share the name A
Endpoints ==
    { [name |-> "A", url |-> "http://x/a", method |-> "GET",
       headers |-> "Accept", params |-> <<>>],
      [name |-> "A", url |-> "http://x/a2", method |-> "POST",
       headers |-> "Content-Type", params |-> <<"p1">>],
      [name |-> "B", url |-> "http://x/b", method |-> "PUT",
       headers |-> "Content-Type", params |-> <<"p2">>] }

RECURSIVE SeqsUpTo(_, _)
SeqsUpTo(S, n) ==
    IF n = 0 THEN {<<>>}
    ELSE LET shorter == SeqsUpTo(S, n - 1)
         IN  shorter \cup {Append(q, e) : q \in shorter, e \in S}

\* the config file at configPath: absent, not JSON, or a document
ConfigFiles ==
    {[exists |-> FALSE, valid |-> FALSE, apis |-> <<>>],
     [exists |-> TRUE, valid |-> FALSE, apis |-> <<>>]}
    \cup {[exists |-> TRUE, valid |-> TRUE, apis |-> a] :
            a \in SeqsUpTo(Endpoints, MaxApis)}

FetchArgs == {<<>>, <<"v1">>, <<"v1", "config.json">>}

\* response bodies an endpoint may answer with
Bodies == {Message("v1"), Message("v2"), JNum0}

\* Date.now() - start; no branch of the program reads the measured time
ElapsedValues == {12}

\* args[k] of a JavaScript array (0-based k); undefined is shown as ""
ArgAt(a, k) == IF k + 1 <= Len(a) THEN a[k + 1] ELSE ""

\* !s for a string or undefined
Missing(s) == s = ""

\* `./apiResponses/${version}`
OutputDir(v) == <<".", "apiResponses", v>>

version == ArgAt(args, 0)
configPath == ArgAt(args, 1)
outputDir == OutputDir(version)
csvPath == PathJoin(outputDir, CsvName)

\* path.join(outputDir, `${api.name}.json`)
OutputFilePath(dir, name) == PathJoin(dir, name \o ".json")

\* RequestData with the body sent whatever the method
RequestDataAlways(method, params) == <<params>>

\* the data field of the axios request: params for POST, undefined (<<>>) otherwise
RequestData(method, params) == IF method = "POST" THEN <<params>> ELSE <<>>

\* the axios request config built by fetchApiResponse
AxiosRequest(url, method, headers, params) ==
    [url |-> url, method |-> method, headers |-> headers,
     data |-> RequestData(method, params)]

\* ParamsOrEmpty without the `|| {}`: absent params stay undefined
ParamsAsConfigured(api) == IF api.params = <<>> THEN "undefined" ELSE api.params[1]

\* api.params || {}
ParamsOrEmpty(api) == IF api.params = <<>> THEN EmptyObject ELSE api.params[1]

\* `${api.name},${elapsed}\n`
CsvRow(name, elapsed) == name \o "," \o ToString(elapsed)

\* `if (response)` of the batch loop
ShouldSave(resp) == Truthy(resp)

(***************************************************************************)
(* fetchApiResponses.ts                                                    *)
(***************************************************************************)
N == Len(config)
api == config[i]

fetchRunVars == <<config, i, inflight, response, calls, started, saved, result>>

\* MainArgs with the output directory probed before the arguments are checked
MainArgsProbesFirst ==
    /\ pc = "main"
    /\ fsOps' = Append(fsOps, FsOp("existsSync", outputDir))
    /\ IF Missing(version) \/ Missing(configPath)
       THEN pc' = "exited" /\ exitCode' = 1
       ELSE pc' = "mkdir" /\ UNCHANGED exitCode
    /\ UNCHANGED <<dirs, files, configFile, args, fetchRunVars, runs, cmpVars>>

\* main: the argument check (a missing argument returns 1 at once)
MainArgs ==
    /\ pc = "main"
    /\ IF Missing(version) \/ Missing(configPath)
       THEN pc' = "exited" /\ exitCode' = 1
       ELSE pc' = "mkdir" /\ UNCHANGED exitCode
    /\ UNCHANGED <<dirs, files, configFile, args, fetchRunVars, runs, fsOps,
                   cmpVars>>

\* MainMkdir with mkdirSync called whether the directory exists or not
MainMkdirUnconditional ==
    /\ pc = "mkdir"
    /\ dirs' = dirs \cup WithParents(outputDir)
    /\ fsOps' = Append(fsOps, FsOp("mkdirSync", outputDir))
    /\ pc' = "load"
    /\ UNCHANGED <<files, configFile, args, fetchRunVars, exitCode, runs, cmpVars>>

\* main: if (!fs.existsSync(outputDir)) fs.mkdirSync(outputDir, {recursive})
MainMkdir ==
    /\ pc = "mkdir"
    /\ IF ExistsSync(outputDir)
       THEN /\ dirs' = dirs
            /\ fsOps' = Append(fsOps, FsOp("existsSync", outputDir))
       ELSE /\ dirs' = dirs \cup WithParents(outputDir)
            /\ fsOps' = fsOps \o <<FsOp("existsSync", outputDir),
                                   FsOp("mkdirSync", outputDir)>>
    /\ pc' = "load"
    /\ UNCHANGED <<files, configFile, args, fetchRunVars, exitCode, runs, cmpVars>>

\* LoadConfig with the CSV header written before the config is looked for
LoadConfigAfterHeader ==
    /\ pc = "load"
    /\ files' = WriteFile(files, csvPath, <<CsvHeader>>)
    /\ IF ~configFile.exists
       THEN /\ result' = "false" /\ exitCode' = 1 /\ pc' = "exited"
            /\ UNCHANGED config
       ELSE IF ~configFile.valid
       THEN /\ result' = "thrown" /\ exitCode' = 1 /\ pc' = "exited"
            /\ UNCHANGED config
       ELSE /\ config' = configFile.apis /\ pc' = "header"
            /\ UNCHANGED <<result, exitCode>>
    /\ fsOps' = fsOps \o <<FsOp("writeFileSync", csvPath),
                           FsOp("existsSync", <<configPath>>)>>
    /\ UNCHANGED <<dirs, configFile, args, i, inflight, response, calls,
                   started, saved, runs, cmpVars>>

\* LoadConfig with an absent file read as an empty document
LoadConfigLenient ==
    /\ pc = "load"
    /\ IF ~configFile.exists \/ ~configFile.valid
       THEN config' = <<>> /\ pc' = "header"
       ELSE config' = configFile.apis /\ pc' = "header"
    /\ fsOps' = Append(fsOps, FsOp("existsSync", <<configPath>>))
    /\ UNCHANGED <<dirs, files, configFile, args, i, inflight, response, calls,
                   started, saved, result, exitCode, runs, cmpVars>>

\* loadConfig and the `if (!config) return false` of fetchAndSaveApiResponses.
\* An absent file gives null, so the batch returns false and main returns 1;
\* JSON.parse throws on a file that is not JSON, the rejection reaches the
\* entry point's .catch and the process exits with 1.
LoadConfig ==
    /\ pc = "load"
    /\ IF ~configFile.exists
       THEN /\ result' = "false" /\ exitCode' = 1 /\ pc' = "exited"
            /\ UNCHANGED config
       ELSE IF ~configFile.valid
       THEN /\ result' = "thrown" /\ exitCode' = 1 /\ pc' = "exited"
            /\ UNCHANGED config
       ELSE /\ config' = configFile.apis /\ pc' = "header"
            /\ UNCHANGED <<result, exitCode>>
    /\ fsOps' = IF configFile.exists
                THEN fsOps \o <<FsOp("existsSync", <<configPath>>),
                                FsOp("readFileSync", <<configPath>>)>>
                ELSE Append(fsOps, FsOp("existsSync", <<configPath>>))
    /\ UNCHANGED <<dirs, files, configFile, args, i, inflight, response, calls,
                   started, saved, runs, cmpVars>>

\* fs.writeFileSync(csvPath, header)
WriteHeader ==
    /\ pc = "header"
    /\ files' = WriteFile(files, csvPath, <<CsvHeader>>)
    /\ i' = 1
    /\ pc' = "loop"
    /\ fsOps' = Append(fsOps, FsOp("writeFileSync", csvPath))
    /\ UNCHANGED <<dirs, configFile, args, config, inflight, response, calls,
                   started, saved, result, exitCode, runs, cmpVars>>

\* StartRequest as a fan-out: the next request is issued while one is pending
StartRequestFanOut ==
    /\ pc \in {"loop", "await"}
    /\ started < N
    /\ inflight' = Append(inflight,
            AxiosRequest(config[started + 1].url, config[started + 1].method,
                         config[started + 1].headers,
                         ParamsOrEmpty(config[started + 1])))
    /\ started' = started + 1
    /\ pc' = "await"
    /\ UNCHANGED <<dirs, files, configFile, args, config, i, response, calls,
                   saved, result, exitCode, runs, fsOps, cmpVars>>

\* the loop head with an endpoint left: fetchApiResponse issues the request
StartRequest ==
    /\ pc = "loop"
    /\ i <= N
    /\ inflight' = Append(inflight,
            AxiosRequest(api.url, api.method, api.headers, ParamsOrEmpty(api)))
    /\ started' = started + 1
    /\ pc' = "await"
    /\ UNCHANGED <<dirs, files, configFile, args, config, i, response, calls,
                   saved, result, exitCode, runs, fsOps, cmpVars>>

\* what fetchApiResponse returns: response.data, or null from the catch block
FetchReturn(ok, body) == IF ok THEN body ELSE JNull

\* the awaited request settles: it resolves with a body or it fails
RequestSettles(ok, body) ==
    /\ pc = "await"
    /\ inflight # <<>>
    /\ inflight' = Tail(inflight)
    /\ response' = FetchReturn(ok, body)
    /\ calls' = Append(calls, [name |-> api.name, ok |-> ok, body |-> body])
    /\ pc' = "row"
    /\ UNCHANGED <<dirs, files, configFile, args, config, i, started, saved,
                   result, exitCode, runs, fsOps, cmpVars>>

RequestResolves == \E body \in Bodies : RequestSettles(TRUE, body)

\* RequestFails without the try/catch: the rejection leaves the batch
RequestFailsAborts ==
    /\ pc = "await"
    /\ inflight # <<>>
    /\ inflight' = Tail(inflight)
    /\ calls' = Append(calls, [name |-> api.name, ok |-> FALSE, body |-> JNull])
    /\ result' = "thrown" /\ exitCode' = 1 /\ pc' = "exited"
    /\ UNCHANGED <<dirs, files, configFile, args, config, i, response, started,
                   saved, runs, fsOps, cmpVars>>

RequestFails == RequestSettles(FALSE, JNull)

\* AppendRow with the row appended twice
AppendRowTwice ==
    /\ pc = "row"
    /\ \E elapsed \in ElapsedValues :
           files' = AppendFile(AppendFile(files, csvPath, CsvRow(api.name, elapsed)),
                               csvPath, CsvRow(api.name, elapsed))
    /\ fsOps' = fsOps \o <<FsOp("appendFileSync", csvPath),
                           FsOp("appendFileSync", csvPath)>>
    /\ pc' = "save"
    /\ UNCHANGED <<dirs, configFile, args, fetchRunVars, exitCode, runs, cmpVars>>

\* AppendRow with the header repeated in front of every row
AppendRowWithHeader ==
    /\ pc = "row"
    /\ \E elapsed \in ElapsedValues :
           files' = AppendFile(AppendFile(files, csvPath, CsvHeader),
                               csvPath, CsvRow(api.name, elapsed))
    /\ fsOps' = Append(fsOps, FsOp("appendFileSync", csvPath))
    /\ pc' = "save"
    /\ UNCHANGED <<dirs, configFile, args, fetchRunVars, exitCode, runs, cmpVars>>

\* AppendRow with the row written only for a call that returned a response
AppendRowOnlyOk ==
    /\ pc = "row"
    /\ IF Truthy(response)
       THEN /\ \E elapsed \in ElapsedValues :
                  files' = AppendFile(files, csvPath, CsvRow(api.name, elapsed))
            /\ fsOps' = Append(fsOps, FsOp("appendFileSync", csvPath))
       ELSE UNCHANGED <<files, fsOps>>
    /\ pc' = "save"
    /\ UNCHANGED <<dirs, configFile, args, fetchRunVars, exitCode, runs, cmpVars>>

\* fs.appendFileSync(csvPath, `${api.name},${elapsed}\n`)
AppendRow ==
    /\ pc = "row"
    /\ \E elapsed \in ElapsedValues :
           files' = AppendFile(files, csvPath, CsvRow(api.name, elapsed))
    /\ fsOps' = Append(fsOps, FsOp("appendFileSync", csvPath))
    /\ pc' = "save"
    /\ UNCHANGED <<dirs, configFile, args, fetchRunVars, exitCode, runs, cmpVars>>

\* SaveResponse with the endpoint after an unsaved call skipped
SaveResponseSkipsAfterFailure ==
    /\ pc = "save"
    /\ IF ShouldSave(response)
       THEN /\ files' = WriteFile(files, OutputFilePath(outputDir, api.name),
                                  Stringify2(response))
            /\ fsOps' = Append(fsOps,
                    FsOp("writeFileSync", OutputFilePath(outputDir, api.name)))
            /\ saved' = saved + 1
            /\ i' = i + 1
       ELSE /\ i' = i + 2
            /\ UNCHANGED <<files, saved, fsOps>>
    /\ pc' = "loop"
    /\ UNCHANGED <<dirs, configFile, args, config, inflight, response, calls,
                   started, result, exitCode, runs, cmpVars>>

\* SaveResponse without the `if (response)` test
SaveResponseAlways ==
    /\ pc = "save"
    /\ files' = WriteFile(files, OutputFilePath(outputDir, api.name),
                          Stringify2(response))
    /\ fsOps' = Append(fsOps,
                       FsOp("writeFileSync", OutputFilePath(outputDir, api.name)))
    /\ saved' = saved + 1
    /\ i' = i + 1
    /\ pc' = "loop"
    /\ UNCHANGED <<dirs, configFile, args, config, inflight, response, calls,
                   started, result, exitCode, runs, cmpVars>>

\* if (response) saveApiResponseToFile(response, outputFilePath); next endpoint
SaveResponse ==
    /\ pc = "save"
    /\ IF ShouldSave(response)
       THEN /\ files' = WriteFile(files, OutputFilePath(outputDir, api.name),
                                  Stringify2(response))
            /\ fsOps' = Append(fsOps,
                    FsOp("writeFileSync", OutputFilePath(outputDir, api.name)))
            /\ saved' = saved + 1
       ELSE UNCHANGED <<files, saved, fsOps>>
    /\ i' = i + 1
    /\ pc' = "loop"
    /\ UNCHANGED <<dirs, configFile, args, config, inflight, response, calls,
                   started, result, exitCode, runs, cmpVars>>

\* ReturnTrue with the exit code reporting failed requests
ReturnTrueUnlessFailed ==
    /\ pc = "loop"
    /\ i > N
    /\ result' = "true"
    /\ exitCode' = IF \E k \in 1..Len(calls) : ~calls[k].ok THEN 1 ELSE 0
    /\ pc' = "exited"
    /\ UNCHANGED <<dirs, files, configFile, args, config, i, inflight, response,
                   calls, started, saved, runs, fsOps, cmpVars>>

\* the loop is over: return true, and main returns 0
ReturnTrue ==
    /\ pc = "loop"
    /\ i > N
    /\ result' = "true"
    /\ exitCode' = 0
    /\ pc' = "exited"
    /\ UNCHANGED <<dirs, files, configFile, args, config, i, inflight, response,
                   calls, started, saved, runs, fsOps, cmpVars>>

\* the tool is run again, with new arguments and config, on the same disk
NextRun ==
    /\ pc = "exited"
    /\ runs < MaxRuns
    /\ runs' = runs + 1
    /\ args' \in FetchArgs
    /\ configFile' \in ConfigFiles
    /\ pc' = "main"
    /\ config' = <<>> /\ i' = 1 /\ inflight' = <<>> /\ response' = JNull
    /\ calls' = <<>> /\ started' = 0 /\ saved' = 0
    /\ result' = "none" /\ exitCode' = -1 /\ fsOps' = <<>>
    /\ UNCHANGED <<dirs, files, cmpVars>>

(***************************************************************************)
(* One run of the fetch tool on an empty disk, over endpoints of every     *)
(* combination of GET / POST / PUT with and without params                 *)
(***************************************************************************)
ParamEndpoints ==
    Endpoints \cup
    { [name |-> "A", url |-> "http://x/a", method |-> "GET",
       headers |-> "Accept", params |-> <<"p1">>],
      [name |-> "B", url |-> "http://x/b", method |-> "POST",
       headers |-> "Content-Type", params |-> <<>>] }

OneRunConfigs ==
    {[exists |-> FALSE, valid |-> FALSE, apis |-> <<>>],
     [exists |-> TRUE, valid |-> FALSE, apis |-> <<>>]}
    \cup {[exists |-> TRUE, valid |-> TRUE, apis |-> a] :
            a \in SeqsUpTo(ParamEndpoints, MaxApis)}

\* the steps the program takes by itself, and those of the HTTP server
ProgramStep ==
    \/ MainArgs \/ MainMkdir \/ LoadConfig \/ WriteHeader
    \/ StartRequest \/ AppendRow \/ SaveResponse \/ ReturnTrue
ServerStep == RequestResolves \/ RequestFails

CompareIdle ==
    /\ cargs = <<>> /\ cpc = "idle" /\ allFiles = <<>> /\ ci = 1
    /\ reports = <<>> /\ visits = <<>> /\ cexit = -1

InitFetch ==
    /\ dirs = {} /\ files = <<>>
    /\ args \in FetchArgs
    /\ configFile \in ConfigFiles
    /\ pc = "main" /\ runs = 1
    /\ config = <<>> /\ i = 1 /\ inflight = <<>> /\ response = JNull
    /\ calls = <<>> /\ started = 0 /\ saved = 0
    /\ result = "none" /\ exitCode = -1 /\ fsOps = <<>>
    /\ CompareIdle

InitOneRun ==
    /\ dirs = {} /\ files = <<>>
    /\ args \in FetchArgs
    /\ configFile \in OneRunConfigs
    /\ pc = "main" /\ runs = 1
    /\ config = <<>> /\ i = 1 /\ inflight = <<>> /\ response = JNull
    /\ calls = <<>> /\ started = 0 /\ saved = 0
    /\ result = "none" /\ exitCode = -1 /\ fsOps = <<>>
    /\ CompareIdle

NextOneRun == ProgramStep \/ ServerStep

SpecOneRun == InitOneRun /\ [][NextOneRun]_vars

\* the Node.js event loop runs every continuation that is ready; whether a
\* request ever settles is up to the server
SpecOneRunFair == SpecOneRun /\ WF_vars(ProgramStep)

NextFetch ==
    \/ MainArgs \/ MainMkdir \/ LoadConfig \/ WriteHeader
    \/ StartRequest \/ RequestResolves \/ RequestFails
    \/ AppendRow \/ SaveResponse \/ ReturnTrue \/ NextRun

SpecFetch == InitFetch /\ [][NextFetch]_vars

(***************************************************************************)
(* compareApiResponses.ts                                                  *)
(***************************************************************************)
\* the JSON documents a response file may hold
JsonDocs == {Message("v1"), Message("v2"), JNum0}

\* every JSON document explored: those above, the other falsy values, a
\* string, the empty object and an object with a second member
ParsableDocs ==
    JsonDocs \cup {JNull, JFalse, JStr(""), JStr("v1"), JObj(<<>>),
                   JObj(<<[key |-> "message", val |-> "v1"],
                          [key |-> "note", val |-> "n"]>>)}

\* JSON.parse of a file's text: the document whose text it is, if any
IsJson(lines) == \E v \in ParsableDocs : Stringify2(v) = lines
ParseJson(lines) == CHOOSE v \in ParsableDocs : Stringify2(v) = lines

\* loadApiResponse: null for an absent file, the parsed document otherwise;
\* thrown is JSON.parse throwing a SyntaxError
LoadApiResponse(fs, p) ==
    IF Normalize(p) \notin DOMAIN fs
    THEN [thrown |-> FALSE, value |-> JNull]
    ELSE IF IsJson(fs[Normalize(p)])
    THEN [thrown |-> FALSE, value |-> ParseJson(fs[Normalize(p)])]
    ELSE [thrown |-> TRUE, value |-> JNull]

Keys(ms) == {ms[k].key : k \in 1..Len(ms)}
ValueOf(ms, key) == (CHOOSE k \in 1..Len(ms) : ms[k].key = key)
HasKey(ms, key) == key \in Keys(ms)

RECURSIVE DiffLeft(_, _)
\* deep-diff over the keys of lhs: an edit for a changed member, a deletion
\* for a member rhs lacks
DiffLeft(lms, rms) ==
    IF lms = <<>> THEN <<>>
    ELSE LET m == Head(lms)
             here ==
                IF ~HasKey(rms, m.key)
                THEN <<[kind |-> "D", path |-> <<m.key>>,
                        lhs |-> <<Quote(m.val)>>, rhs |-> <<>>]>>
                ELSE IF rms[ValueOf(rms, m.key)].val # m.val
                THEN <<[kind |-> "E", path |-> <<m.key>>,
                        lhs |-> <<Quote(m.val)>>,
                        rhs |-> <<Quote(rms[ValueOf(rms, m.key)].val)>>]>>
                ELSE <<>>
         IN  here \o DiffLeft(Tail(lms), rms)

RECURSIVE DiffRight(_, _)
\* deep-diff over the keys only rhs has: an addition each
DiffRight(lms, rms) ==
    IF rms = <<>> THEN <<>>
    ELSE LET m == Head(rms)
             here ==
                IF ~HasKey(lms, m.key)
                THEN <<[kind |-> "N", path |-> <<m.key>>,
                        lhs |-> <<>>, rhs |-> <<Quote(m.val)>>]>>
                ELSE <<>>
         IN  here \o DiffRight(lms, Tail(rms))

\* the text of a scalar as JSON.stringify prints it
ScalarText(v) == IF v.kind = "string" THEN Quote(v.lit) ELSE v.lit

\* diff(lhs, rhs) of deep-diff: the change records, <<>> for undefined
Diff(l, r) ==
    IF l.kind # r.kind
    THEN <<[kind |-> "E", path |-> <<>>,
            lhs |-> Stringify2(l), rhs |-> Stringify2(r)]>>
    ELSE IF l.kind = "object"
    THEN DiffLeft(l.members, r.members) \o DiffRight(l.members, r.members)
    ELSE IF l.lit # r.lit
    THEN <<[kind |-> "E", path |-> <<>>,
            lhs |-> <<ScalarText(l)>>, rhs |-> <<ScalarText(r)>>]>>
    ELSE <<>>

\* a property of a change record, value indented below the record's brace
FieldLines(name, valueLines, last) ==
    [k \in 1..Len(valueLines) |->
        (IF k = 1 THEN "    " \o Quote(name) \o ": " ELSE "    ")
        \o valueLines[k]
        \o (IF k = Len(valueLines) /\ ~last THEN "," ELSE "")]

PathLines(path) ==
    <<"[">>
    \o [k \in 1..Len(path) |->
            "  " \o Quote(path[k]) \o (IF k < Len(path) THEN "," ELSE "")]
    \o <<"]">>

\* one change record: kind, path (when not empty), lhs, rhs, in that order
ChangeLines(c, last) ==
    <<"  {">>
    \o FieldLines("kind", <<Quote(c.kind)>>, FALSE)
    \o (IF c.path = <<>> THEN <<>> ELSE FieldLines("path", PathLines(c.path), FALSE))
    \o (IF c.lhs = <<>> THEN <<>> ELSE FieldLines("lhs", c.lhs, c.rhs = <<>>))
    \o (IF c.rhs = <<>> THEN <<>> ELSE FieldLines("rhs", c.rhs, TRUE))
    \o <<IF last THEN "  }" ELSE "  },">>

RECURSIVE ChangesLines(_)
ChangesLines(cs) ==
    IF cs = <<>> THEN <<>>
    ELSE ChangeLines(Head(cs), Len(cs) = 1) \o ChangesLines(Tail(cs))

\* JSON.stringify(differences, null, 2)
StringifyDiff(cs) == <<"[">> \o ChangesLines(cs) \o <<"]">>

BothMissingMsg(f1, f2) ==
    "Both files are missing: " \o PathStr(f1) \o " and " \o PathStr(f2)
Missing1Msg(f1) == "File missing in version 1: " \o PathStr(f1)
Missing2Msg(f2) == "File missing in version 2: " \o PathStr(f2)
DifferencesMsg(f1, f2) ==
    "Differences found between " \o PathStr(f1) \o " and " \o PathStr(f2) \o ":"
MatchMsg(f1, f2) ==
    "No differences found between " \o PathStr(f1) \o " and " \o PathStr(f2)
    \o ". The responses match."

\* CompareApiResponses with the diff taken from version 2 to version 1
CompareApiResponsesReversed(fs, f1, f2) ==
    LET r1 == LoadApiResponse(fs, f1)
        r2 == LoadApiResponse(fs, f2)
        out(lines, diffed) == [thrown |-> FALSE, lines |-> lines, diffed |-> diffed]
    IN  IF r1.thrown \/ r2.thrown
        THEN [thrown |-> TRUE, lines |-> <<>>, diffed |-> FALSE]
        ELSE IF ~Truthy(r1.value) /\ ~Truthy(r2.value)
        THEN out(<<BothMissingMsg(f1, f2)>>, FALSE)
        ELSE IF ~Truthy(r1.value) THEN out(<<Missing1Msg(f1)>>, FALSE)
        ELSE IF ~Truthy(r2.value) THEN out(<<Missing2Msg(f2)>>, FALSE)
        ELSE LET differences == Diff(r2.value, r1.value)
             IN  IF differences # <<>>
                 THEN out(<<DifferencesMsg(f1, f2)>> \o StringifyDiff(differences),
                          TRUE)
                 ELSE out(<<MatchMsg(f1, f2)>>, TRUE)

\* compareApiResponses(file1, file2): the lines it logs, whether it threw,
\* and whether it reached the call of diff
CompareApiResponses(fs, f1, f2) ==
    LET r1 == LoadApiResponse(fs, f1)
        r2 == LoadApiResponse(fs, f2)
        out(lines, diffed) == [thrown |-> FALSE, lines |-> lines, diffed |-> diffed]
    IN  IF r1.thrown \/ r2.thrown
        THEN [thrown |-> TRUE, lines |-> <<>>, diffed |-> FALSE]
        ELSE IF ~Truthy(r1.value) /\ ~Truthy(r2.value)
        THEN out(<<BothMissingMsg(f1, f2)>>, FALSE)
        ELSE IF ~Truthy(r1.value) THEN out(<<Missing1Msg(f1)>>, FALSE)
        ELSE IF ~Truthy(r2.value) THEN out(<<Missing2Msg(f2)>>, FALSE)
        ELSE LET differences == Diff(r1.value, r2.value)
             IN  IF differences # <<>>
                 THEN out(<<DifferencesMsg(f1, f2)>> \o StringifyDiff(differences),
                          TRUE)
                 ELSE out(<<MatchMsg(f1, f2)>>, TRUE)

\* the names a directory may hold, in the order fs.readdirSync lists them
ListingOrder == <<"A.json", "B.json", CsvName>>

InDir(fs, dir, name) == PathJoin(dir, name) \in DOMAIN fs

\* fs.readdirSync(dir)
ReadDir(fs, dir) ==
    LET keep(name) == InDir(fs, dir, name) IN SelectSeq(ListingOrder, keep)

\* new Set([...files1, ...files2]) in insertion order
UnionInOrder(files1, files2) ==
    LET isNew(name) == \A k \in 1..Len(files1) : files1[k] # name
    IN  files1 \o SelectSeq(files2, isNew)

\* args[k] of the compare entry point; undefined is shown as <<>>
DirArg(a, k) == IF k + 1 <= Len(a) THEN a[k + 1] ELSE <<>>
version1Dir == DirArg(cargs, 0)
version2Dir == DirArg(cargs, 1)

fsAndFetch == <<dirs, files, fetchVars>>

\* main up to the call of compareDirectories, and its two readdirSync calls
CompareMain ==
    /\ cpc = "main"
    /\ IF version1Dir = <<>> \/ version2Dir = <<>>
       THEN /\ reports' = Append(reports,
                "Please provide two directories as arguments (e.g., v1 and v2)")
            /\ cexit' = 1 /\ cpc' = "exited" /\ UNCHANGED allFiles
       ELSE IF ~ExistsSync(version1Dir)
       THEN /\ reports' = Append(reports,
                "Directory not found: " \o PathStr(version1Dir))
            /\ cexit' = 1 /\ cpc' = "exited" /\ UNCHANGED allFiles
       ELSE IF ~ExistsSync(version2Dir)
       THEN /\ reports' = Append(reports,
                "Directory not found: " \o PathStr(version2Dir))
            /\ cexit' = 1 /\ cpc' = "exited" /\ UNCHANGED allFiles
       ELSE /\ allFiles' = UnionInOrder(ReadDir(files, version1Dir),
                                        ReadDir(files, version2Dir))
            /\ cpc' = "scan"
            /\ UNCHANGED <<reports, cexit>>
    /\ UNCHANGED <<fsAndFetch, cargs, ci, visits>>

\* VisitOutcome with the two missing-file reports exchanged
VisitOutcomeSwapped(dir1, dir2, file) ==
    LET file1 == PathJoin(dir1, file)
        file2 == PathJoin(dir2, file)
    IN  IF ~ExistsSync(file1)
        THEN [kind |-> "missing1", thrown |-> FALSE, lines |-> <<Missing2Msg(file2)>>]
        ELSE IF ~ExistsSync(file2)
        THEN [kind |-> "missing2", thrown |-> FALSE, lines |-> <<Missing1Msg(file1)>>]
        ELSE LET c == CompareApiResponses(files, file1, file2)
             IN  [kind |-> "compared", thrown |-> c.thrown, lines |-> c.lines]

\* the outcome of the forEach callback for one filename
VisitOutcome(dir1, dir2, file) ==
    LET file1 == PathJoin(dir1, file)
        file2 == PathJoin(dir2, file)
    IN  IF ~ExistsSync(file1)
        THEN [kind |-> "missing1", thrown |-> FALSE, lines |-> <<Missing1Msg(file1)>>]
        ELSE IF ~ExistsSync(file2)
        THEN [kind |-> "missing2", thrown |-> FALSE, lines |-> <<Missing2Msg(file2)>>]
        ELSE LET c == CompareApiResponses(files, file1, file2)
             IN  [kind |-> "compared", thrown |-> c.thrown, lines |-> c.lines]

\* Visit with the lines of the visit also saved to a file of directory 1
VisitSavesReport ==
    /\ cpc = "scan"
    /\ ci <= Len(allFiles)
    /\ LET o == VisitOutcome(version1Dir, version2Dir, allFiles[ci])
       IN  /\ reports' = reports \o o.lines
           /\ files' = WriteFile(files, PathJoin(version1Dir, "report.txt"), o.lines)
           /\ visits' = Append(visits, [file |-> allFiles[ci], outcome |-> o.kind])
           /\ IF o.thrown
              THEN cpc' = "crashed" /\ cexit' = 1 /\ UNCHANGED ci
              ELSE ci' = ci + 1 /\ UNCHANGED <<cpc, cexit>>
    /\ UNCHANGED <<dirs, fetchVars, cargs, allFiles>>

\* one call of the forEach callback; an exception of compareApiResponses is
\* caught nowhere and ends the process (exit code 1)
Visit ==
    /\ cpc = "scan"
    /\ ci <= Len(allFiles)
    /\ LET o == VisitOutcome(version1Dir, version2Dir, allFiles[ci])
       IN  /\ reports' = reports \o o.lines
           /\ visits' = Append(visits, [file |-> allFiles[ci], outcome |-> o.kind])
           /\ IF o.thrown
              THEN cpc' = "crashed" /\ cexit' = 1 /\ UNCHANGED ci
              ELSE ci' = ci + 1 /\ UNCHANGED <<cpc, cexit>>
    /\ UNCHANGED <<fsAndFetch, cargs, allFiles>>

\* forEach is over: compareDirectories returns and main returns 0
CompareReturn ==
    /\ cpc = "scan"
    /\ ci > Len(allFiles)
    /\ cexit' = 0
    /\ cpc' = "exited"
    /\ UNCHANGED <<fsAndFetch, cargs, allFiles, ci, reports, visits>>

(***************************************************************************)
(* The compare pipeline on its own: any content of the two directories     *)
(***************************************************************************)
Dir1 == <<"apiResponses", "v1">>
Dir2 == <<".", "apiResponses", "v2">>
CompareArgs == {<<>>, <<Dir1>>, <<Dir1, Dir2>>}

\* what a file of the directories may hold: a JSON document, text that is
\* not JSON, or (response_times.csv) a timing report
NotJsonText == <<"<html>">>
TimingReport == <<CsvHeader, CsvRow("A", 12)>>
TextsOf(name) ==
    IF name = CsvName THEN {TimingReport}
    ELSE {Stringify2(v) : v \in JsonDocs} \cup {NotJsonText}

ListingNames == {ListingOrder[k] : k \in 1..Len(ListingOrder)}
NameOf(p) == p[Len(p)]

\* the possible contents of one directory
DirContents(dir) ==
    UNION { { f \in [{PathJoin(dir, n) : n \in S} ->
                        UNION {TextsOf(n) : n \in ListingNames}] :
                \A p \in DOMAIN f : f[p] \in TextsOf(NameOf(p)) } :
            S \in SUBSET ListingNames }

Merge(f, g) ==
    [p \in DOMAIN f \cup DOMAIN g |-> IF p \in DOMAIN f THEN f[p] ELSE g[p]]

FetchIdle ==
    /\ configFile = [exists |-> FALSE, valid |-> FALSE, apis |-> <<>>]
    /\ args = <<>> /\ pc = "idle" /\ runs = 0
    /\ config = <<>> /\ i = 1 /\ inflight = <<>> /\ response = JNull
    /\ calls = <<>> /\ started = 0 /\ saved = 0
    /\ result = "none" /\ exitCode = -1 /\ fsOps = <<>>

InitCompare ==
    /\ dirs \in SUBSET {Normalize(Dir1), Normalize(Dir2)}
    /\ \E f1 \in (IF Normalize(Dir1) \in dirs THEN DirContents(Dir1) ELSE {<<>>}),
          f2 \in (IF Normalize(Dir2) \in dirs THEN DirContents(Dir2) ELSE {<<>>}) :
            files = Merge(f1, f2)
    /\ FetchIdle
    /\ cargs \in CompareArgs
    /\ cpc = "main" /\ allFiles = <<>> /\ ci = 1
    /\ reports = <<>> /\ visits = <<>> /\ cexit = -1

NextCompare == CompareMain \/ Visit \/ CompareReturn

SpecCompare == InitCompare /\ [][NextCompare]_vars

(***************************************************************************)
(* compareApiResponses called on its own, as its callers outside           *)
(* compareDirectories (the test suite) call it: two paths, each file       *)
(* absent, a JSON document or text that is not JSON                        *)
(***************************************************************************)
File1 == <<"apiResponses", "v1", "A.json">>
File2 == <<"apiResponses", "v2", "A.json">>
PairArgs == {<<File1, File2>>, <<File2, File1>>, <<File1, File1>>}
PairTexts == {Stringify2(v) : v \in ParsableDocs} \cup {NotJsonText}

\* the call compareApiResponses(cargs[1], cargs[2])
CallCompareApiResponses ==
    /\ cpc = "call"
    /\ LET o == CompareApiResponses(files, cargs[1], cargs[2])
       IN  /\ reports' = o.lines
           /\ visits' = <<[file |-> PathStr(cargs[1]),
                           outcome |-> IF o.thrown THEN "thrown"
                                       ELSE IF o.diffed THEN "diffed"
                                       ELSE "notDiffed"]>>
           /\ cpc' = IF o.thrown THEN "threw" ELSE "returned"
    /\ UNCHANGED <<fsAndFetch, cargs, allFiles, ci, cexit>>

InitPair ==
    /\ dirs = {Normalize(Dir1), Normalize(Dir2)}
    /\ \E S \in SUBSET {File1, File2} : files \in [S -> PairTexts]
    /\ FetchIdle
    /\ cargs \in PairArgs
    /\ cpc = "call" /\ allFiles = <<>> /\ ci = 1
    /\ reports = <<>> /\ visits = <<>> /\ cexit = -1

NextPair == CallCompareApiResponses

SpecPair == InitPair /\ [][NextPair]_vars

(***************************************************************************)
(* The documented workflow: fetch version v1 with one config, fetch        *)
(* version v2 with another, then compare the two output directories        *)
(***************************************************************************)
PipelineEndpoints == {e \in Endpoints : e.method # "POST"}

\* the config of a version: absent, or any list of different endpoints
PipelineConfigs ==
    {[exists |-> FALSE, valid |-> FALSE, apis |-> <<>>]}
    \cup {[exists |-> TRUE, valid |-> TRUE, apis |-> a] :
            a \in {q \in SeqsUpTo(PipelineEndpoints, Cardinality(PipelineEndpoints)) :
                      \A j, k \in 1..Len(q) : j # k => q[j] # q[k]}}

\* the second fetch run, for version v2
FetchOtherVersion ==
    /\ pc = "exited" /\ runs = 1
    /\ runs' = runs + 1
    /\ args' = <<"v2", configPath>>
    /\ configFile' \in PipelineConfigs
    /\ pc' = "main"
    /\ config' = <<>> /\ i' = 1 /\ inflight' = <<>> /\ response' = JNull
    /\ calls' = <<>> /\ started' = 0 /\ saved' = 0
    /\ result' = "none" /\ exitCode' = -1 /\ fsOps' = <<>>
    /\ UNCHANGED <<dirs, files, cmpVars>>

\* the compare tool is started on the two output directories
StartCompare ==
    /\ pc = "exited" /\ runs > 1
    /\ cpc = "idle"
    /\ cargs' = <<OutputDir("v1"), OutputDir("v2")>>
    /\ cpc' = "main"
    /\ UNCHANGED <<fsAndFetch, allFiles, ci, reports, visits, cexit>>

InitPipeline ==
    /\ dirs = {} /\ files = <<>>
    /\ args = <<"v1", "config.json">>
    /\ configFile \in PipelineConfigs
    /\ pc = "main" /\ runs = 1
    /\ config = <<>> /\ i = 1 /\ inflight = <<>> /\ response = JNull
    /\ calls = <<>> /\ started = 0 /\ saved = 0
    /\ result = "none" /\ exitCode = -1 /\ fsOps = <<>>
    /\ CompareIdle

NextPipeline ==
    \/ ProgramStep \/ ServerStep \/ FetchOtherVersion
    \/ StartCompare \/ NextCompare

SpecPipeline == InitPipeline /\ [][NextPipeline]_vars

(***************************************************************************)
(* compare dir1 dir2 followed by compare dir2 dir1 on the same contents;   *)
(* the console keeps the lines of the first run                            *)
(***************************************************************************)
CompareSwapped ==
    /\ cpc \in {"exited", "crashed"}
    /\ cargs = <<Dir1, Dir2>>
    /\ cargs' = <<Dir2, Dir1>>
    /\ cpc' = "main" /\ allFiles' = <<>> /\ ci' = 1
    /\ visits' = <<>> /\ cexit' = -1
    /\ UNCHANGED <<fsAndFetch, reports>>

InitSwap ==
    /\ dirs = {Normalize(Dir1), Normalize(Dir2)}
    /\ \E f1 \in DirContents(Dir1), f2 \in DirContents(Dir2) :
            files = Merge(f1, f2)
    /\ FetchIdle
    /\ cargs = <<Dir1, Dir2>>
    /\ cpc = "main" /\ allFiles = <<>> /\ ci = 1
    /\ reports = <<>> /\ visits = <<>> /\ cexit = -1

NextSwap == NextCompare \/ CompareSwapped

SpecSwap == InitSwap /\ [][NextSwap]_vars

(***************************************************************************)
(* Either tool is run: the behaviours of both specifications above         *)
(***************************************************************************)
InitTools == InitFetch \/ InitCompare
NextTools == NextFetch \/ NextCompare
SpecTools == InitTools /\ [][NextTools]_vars

(***************************************************************************)
(* Properties of the fetch pipeline                                        *)
(***************************************************************************)
ArgsPresent == ~Missing(version) /\ ~Missing(configPath)
ConfigLoads == configFile.exists /\ configFile.valid
CsvLines == IF Normalize(csvPath) \in DOMAIN files
            THEN files[Normalize(csvPath)] ELSE <<>>
\* the rows of response_times.csv after its header
TimingRows == IF CsvLines = <<>> THEN <<>> ELSE Tail(CsvLines)
IsRowOf(line, name) == \E elapsed \in ElapsedValues : line = name \o "," \o ToString(elapsed)
Failed(k) == ~calls[k].ok
ResponseFile(name) == Normalize(<<".", "apiResponses", version, name \o ".json">>)

\* C1: a completed run on a config of N endpoints leaves exactly N timing
\* rows after the header, row k being the row of endpoint k whether call k
\* failed or not, and has written at most N response files.
C1_RowsAndFiles ==
    result = "true" =>
        /\ Len(CsvLines) = N + 1
        /\ CsvLines[1] = CsvHeader
        /\ \A k \in 1..N : IsRowOf(TimingRows[k], config[k].name)
        /\ saved <= N

C1_Witness ==
    /\ result = "true" /\ N >= 2
    /\ Failed(1) /\ ~Failed(2) /\ saved = 1
    /\ Len(TimingRows) = N

\* C2: a failed request makes fetchApiResponse return null and never ends
\* the batch: the batch goes on, and when it has ended it has issued one
\* request per endpoint and returned true.
C2_FailureDoesNotAbort ==
    /\ (pc = "row" /\ Failed(Len(calls))) => response = JNull
    /\ (\E k \in 1..Len(calls) : Failed(k)) =>
            /\ result \in {"none", "true"}
            /\ pc # "exited" => ENABLED NextFetch
            /\ pc = "exited" =>
                  /\ result = "true"
                  /\ started = N
                  /\ Len(calls) = N
                  /\ \A k \in 1..N : calls[k].name = config[k].name

C2_Witness ==
    /\ pc = "exited" /\ result = "true" /\ N >= 2
    /\ Failed(1) /\ started = N /\ ~Failed(N)

C4_Original ==
    (pc = "exited" /\ ArgsPresent /\ ~ConfigLoads) =>
        result = "false" /\ started = 0

\* C4 as amended: an absent config file makes the batch return false, a
\* config file that is not JSON makes it throw; no request is attempted in
\* either case.
C4_LoadFailure ==
    (pc = "exited" /\ ArgsPresent /\ ~ConfigLoads) =>
        /\ started = 0 /\ inflight = <<>> /\ calls = <<>>
        /\ ~configFile.exists => result = "false"
        /\ configFile.exists => result = "thrown"

C4_Witness ==
    pc = "exited" /\ ArgsPresent /\ ~configFile.exists /\ result = "false"

\* C5: with both arguments present the exit code is 1 when the config did
\* not load and 0 when it did, however many requests failed.
C5_ExitCode ==
    (pc = "exited" /\ ArgsPresent) =>
        exitCode = IF ConfigLoads THEN 0 ELSE 1

C5_Witness ==
    /\ pc = "exited" /\ ArgsPresent /\ exitCode = 0
    /\ N >= 2 /\ \A k \in 1..N : Failed(k)

\* the params the batch passed for endpoint i
ParamsPassed == IF config[i].params = <<>> THEN "{}" ELSE config[i].params[1]

\* C6 as stated: a GET request carries no body, a request of any other
\* method carries params as its body, and the headers are the endpoint's.
C6_Original ==
    inflight # <<>> =>
        /\ inflight[1].method = "GET" => inflight[1].data = <<>>
        /\ inflight[1].method # "GET" => inflight[1].data = <<ParamsPassed>>
        /\ inflight[1].headers = config[i].headers

\* C6 as amended: a request carries params as its body exactly when its
\* method is POST; GET and every other method carry no body; the headers
\* are the endpoint's in every case.
C6_BodyOnlyForPost ==
    inflight # <<>> =>
        /\ inflight[1].method = config[i].method
        /\ inflight[1].method = "POST" => inflight[1].data = <<ParamsPassed>>
        /\ inflight[1].method # "POST" => inflight[1].data = <<>>
        /\ inflight[1].headers = config[i].headers

C6_Witness ==
    /\ inflight # <<>>
    /\ inflight[1].method = "PUT" /\ config[i].params # <<>>
    /\ inflight[1].data = <<>>
    /\ inflight[1].headers = "Content-Type"

\* C7: once the batch has processed a call whose request succeeded, the file
\* <outputDir>/<api.name>.json holds the body, pretty-printed with 2 spaces,
\* whatever JSON value the body is.
C7_EverySuccessSaved ==
    (pc = "loop" /\ i > 1 /\ calls[i - 1].ok /\ calls[i - 1].body # JNull) =>
        /\ ResponseFile(calls[i - 1].name) \in DOMAIN files
        /\ files[ResponseFile(calls[i - 1].name)] = Stringify2(calls[i - 1].body)

\* C8 as stated: after a batch, no endpoint whose request failed has an
\* output file <outputDir>/<api.name>.json.
C8_Original ==
    (pc = "exited" /\ result = "true") =>
        \A k \in 1..Len(calls) :
            Failed(k) => ResponseFile(calls[k].name) \notin DOMAIN files

\* C8 as amended: processing a call whose request failed writes no output
\* file: it leaves every response file, that of the endpoint's own name
\* included, as it was (absent if it was absent).
C8_FailureWritesNothing ==
    [][(pc = "save" /\ Failed(Len(calls))) => (files' = files /\ saved' = saved)]_vars

C8_Witness ==
    /\ pc = "loop" /\ i > 1 /\ Failed(i - 1)
    /\ ResponseFile(calls[i - 1].name) \in DOMAIN files

(***************************************************************************)
(* Properties of the compare pipeline                                      *)
(***************************************************************************)
InUnion(name) ==
    PathJoin(version1Dir, name) \in DOMAIN files
    \/ PathJoin(version2Dir, name) \in DOMAIN files
VisitsOf(name) == {k \in 1..Len(visits) : visits[k].file = name}
ScanEnded == cpc \in {"exited", "crashed"} /\ Len(cargs) = 2
             /\ ExistsSync(version1Dir) /\ ExistsSync(version2Dir)

\* C9: compareDirectories visits every filename of the union of the two
\* listings exactly once, none skipped, and each visit has one outcome: a
\* missing-in-version-1 report, a missing-in-version-2 report, or one call
\* of the pairwise comparator.
C9_EveryFileVisitedOnce ==
    ScanEnded =>
        /\ \A name \in ListingNames :
              Cardinality(VisitsOf(name)) = IF InUnion(name) THEN 1 ELSE 0
        /\ \A k \in 1..Len(visits) :
              visits[k].outcome \in {"missing1", "missing2", "compared"}

\* C10: the visit of a filename that only directory 1 holds logs exactly
\* "File missing in version 2: <dir2>/<file>", the visit of one that only
\* directory 2 holds logs exactly "File missing in version 1: <dir1>/<file>";
\* neither calls the pairwise comparator, and the scan goes on to the next
\* filename.
C10_MissingReports ==
    [][(cpc = "scan" /\ ci <= Len(allFiles)) =>
        LET file == allFiles[ci]
            in1 == PathJoin(version1Dir, file) \in DOMAIN files
            in2 == PathJoin(version2Dir, file) \in DOMAIN files
        IN  /\ (in1 /\ ~in2) =>
                /\ reports' = Append(reports,
                      "File missing in version 2: "
                      \o PathStr(Normalize(version2Dir)) \o "/" \o file)
                /\ visits' = Append(visits, [file |-> file, outcome |-> "missing2"])
                /\ cpc' = "scan" /\ ci' = ci + 1
            /\ (in2 /\ ~in1) =>
                /\ reports' = Append(reports,
                      "File missing in version 1: "
                      \o PathStr(Normalize(version1Dir)) \o "/" \o file)
                /\ visits' = Append(visits, [file |-> file, outcome |-> "missing1"])
                /\ cpc' = "scan" /\ ci' = ci + 1]_vars

C10_Witness ==
    /\ cpc = "scan" /\ Len(visits) = 2 /\ ci <= Len(allFiles)
    /\ visits[1].outcome = "missing2" /\ visits[2].outcome = "missing1"
    /\ reports = <<"File missing in version 2: apiResponses/v2/A.json",
                   "File missing in version 1: apiResponses/v1/B.json">>

\* the call of compareApiResponses is over (returned or threw)
CallEnded == cpc \in {"returned", "threw"}
HoldsJson(p) == Normalize(p) \in DOMAIN files /\ IsJson(files[Normalize(p)])

\* C11: comparing an existing file that holds any valid JSON value to itself
\* reports "No differences found between f and f. The responses match." and
\* nothing else.
C11_SelfCompareMatches ==
    (CallEnded /\ cargs[1] = cargs[2] /\ HoldsJson(cargs[1])) =>
        reports = <<"No differences found between " \o PathStr(cargs[1])
                    \o " and " \o PathStr(cargs[1]) \o ". The responses match.">>

\* both directories hold file name, with the same text, and it is JSON
SameJsonInBoth(name) ==
    /\ HoldsJson(PathJoin(version1Dir, name))
    /\ HoldsJson(PathJoin(version2Dir, name))
    /\ files[PathJoin(version1Dir, name)] = files[PathJoin(version2Dir, name)]

\* C12: when the two directories list the same N filenames and every
\* same-named pair of files is byte-identical valid JSON, the scan logs no
\* missing-file report and exactly N "No differences found ... The responses
\* match." reports, one per filename.
C12_IdenticalDirectoriesMatch ==
    (ScanEnded /\ \A name \in ListingNames : InUnion(name) => SameJsonInBoth(name)) =>
        reports = [k \in 1..Len(allFiles) |->
                      "No differences found between "
                      \o PathStr(PathJoin(version1Dir, allFiles[k])) \o " and "
                      \o PathStr(PathJoin(version2Dir, allFiles[k]))
                      \o ". The responses match."]

\* some directory holds file name with text that is not JSON
Corrupt(name) ==
    \E dir \in {version1Dir, version2Dir} :
        /\ PathJoin(dir, name) \in DOMAIN files
        /\ ~IsJson(files[PathJoin(dir, name)])

\* C13: with one corrupt file in the directories the scan still visits every
\* other filename of the union and main returns 0.
C13_CorruptFileDoesNotAbort ==
    (ScanEnded /\ Cardinality({name \in ListingNames : Corrupt(name)}) = 1) =>
        /\ cexit = 0
        /\ \A name \in ListingNames :
              (InUnion(name) /\ ~Corrupt(name)) => VisitsOf(name) # {}

\* C14: the compare entry point returns 1 without scanning when an argument
\* is missing, when directory 1 does not exist, or when directory 2 does not
\* exist (only the first failing check is reported); otherwise it scans the
\* two directories and returns 0, whatever was reported.
C14_CompareEntryPoint ==
    cpc \in {"exited", "crashed"} =>
        IF Len(cargs) < 2
        THEN /\ cexit = 1 /\ visits = <<>>
             /\ reports = <<"Please provide two directories as arguments (e.g., v1 and v2)">>
        ELSE IF Normalize(cargs[1]) \notin dirs
        THEN /\ cexit = 1 /\ visits = <<>>
             /\ reports = <<"Directory not found: " \o PathStr(cargs[1])>>
        ELSE IF Normalize(cargs[2]) \notin dirs
        THEN /\ cexit = 1 /\ visits = <<>>
             /\ reports = <<"Directory not found: " \o PathStr(cargs[2])>>
        ELSE cexit = 0

\* C15: when the version or the config path argument is missing, the fetch
\* entry point exits with code 1 at once: it has made no file system call
\* (no existence check, no mkdir, no config read, no CSV or response write)
\* and sent no request, and directories, files and config are as they were.
C15_MissingArgsTouchNothing ==
    [][(pc = "main" /\ ~ArgsPresent) =>
          /\ pc' = "exited" /\ exitCode' = 1 /\ result' = "none"
          /\ fsOps' = <<>> /\ started' = 0 /\ calls' = <<>>
          /\ UNCHANGED <<dirs, files, configFile>>]_vars

C15_Witness ==
    /\ pc = "exited" /\ ~ArgsPresent /\ exitCode = 1
    /\ runs = 2 /\ fsOps = <<>> /\ started = 0
    /\ Normalize(OutputDir("v1")) \in dirs /\ files # <<>>

\* the calls the batch makes, after those of main on the output directory
BatchOps == SelectSeq(fsOps, LAMBDA o : o.path # "./apiResponses/" \o version)
BatchPaths ==
    {"config.json", "apiResponses/" \o version \o "/response_times.csv",
     "apiResponses/" \o version \o "/A.json",
     "apiResponses/" \o version \o "/B.json"}

\* C16: with both arguments present the fetch entry point creates
\* ./apiResponses/<version> (with its parent) exactly when it does not exist
\* and calls no mkdir when it exists; the batch runs only after that, on the
\* config path given and with every output under ./apiResponses/<version>.
C16_OutputDirThenBatch ==
    /\ [][pc = "mkdir" =>
            /\ pc' = "load" /\ UNCHANGED <<files, started>>
            /\ IF <<"apiResponses", version>> \in dirs
               THEN /\ dirs' = dirs
                    /\ fsOps' = <<[op |-> "existsSync",
                                   path |-> "./apiResponses/" \o version]>>
               ELSE /\ dirs' = dirs \cup {<<"apiResponses">>,
                                          <<"apiResponses", version>>}
                    /\ fsOps' = <<[op |-> "existsSync",
                                   path |-> "./apiResponses/" \o version],
                                  [op |-> "mkdirSync",
                                   path |-> "./apiResponses/" \o version]>>]_vars
    /\ [](pc \in {"main", "mkdir"} =>
            fsOps = <<>> /\ started = 0 /\ result = "none")
    /\ []((pc \notin {"main", "mkdir", "idle"} /\ ArgsPresent) =>
            /\ <<"apiResponses", version>> \in dirs
            /\ fsOps[1] = [op |-> "existsSync", path |-> "./apiResponses/" \o version]
            /\ \A k \in 1..Len(BatchOps) : BatchOps[k].path \in BatchPaths
            /\ BatchOps # <<>> =>
                  BatchOps[1] = [op |-> "existsSync", path |-> "config.json"])

C16_Witness ==
    /\ pc = "exited" /\ result = "true" /\ runs = 1 /\ saved >= 1
    /\ fsOps[2] = [op |-> "mkdirSync", path |-> "./apiResponses/v1"]
    /\ fsOps[3] = [op |-> "existsSync", path |-> "config.json"]
    /\ <<"apiResponses", "v1", "A.json">> \in DOMAIN files

\* C17: no step of the compare pipeline (main, compareDirectories,
\* compareApiResponses) changes a directory or a file, and no step of a
\* fetch run changes the config file or the config document it loaded.
C17_ReadOnly ==
    [][/\ cpc \in {"main", "scan"} => UNCHANGED <<dirs, files>>
       /\ pc \in {"main", "mkdir", "load", "header", "loop", "await", "row", "save"}
             => configFile' = configFile
       /\ pc \in {"header", "loop", "await", "row", "save"}
             => (config' = config /\ config = configFile.apis)]_vars

C17_Witness ==
    /\ cpc = "exited" /\ cexit = 0 /\ Len(visits) = 3
    /\ \E k \in 1..Len(reports) :
          reports[k] = "Differences found between apiResponses/v1/A.json and apiResponses/v2/A.json:"
    /\ \E k \in 1..Len(visits) : visits[k].outcome = "missing1"

\* C18: the diff is taken from version 1 to version 2: for {"message": a}
\* in file 1 against {"message": b} in file 2, a and b different, the one
\* record reported has path ["message"], lhs a and rhs b.
C18_DiffFromV1ToV2 ==
    \A a, b \in {"v1", "v2"} :
        (/\ CallEnded /\ a # b
         /\ Normalize(cargs[1]) \in DOMAIN files
         /\ Normalize(cargs[2]) \in DOMAIN files
         /\ files[Normalize(cargs[1])] = <<"{", "  \"message\": \"" \o a \o "\"", "}">>
         /\ files[Normalize(cargs[2])] = <<"{", "  \"message\": \"" \o b \o "\"", "}">>)
        => reports = <<"Differences found between " \o PathStr(cargs[1])
                       \o " and " \o PathStr(cargs[2]) \o ":",
                       "[",
                       "  {",
                       "    \"kind\": \"E\",",
                       "    \"path\": [",
                       "      \"message\"",
                       "    ],",
                       "    \"lhs\": \"" \o a \o "\",",
                       "    \"rhs\": \"" \o b \o "\"",
                       "  }",
                       "]">>

C18_Witness ==
    /\ cpc = "returned" /\ cargs = <<File1, File2>>
    /\ File1 \in DOMAIN files /\ File2 \in DOMAIN files
    /\ files[File1] = <<"{", "  \"message\": \"v1\"", "}">>
    /\ files[File2] = <<"{", "  \"message\": \"v2\"", "}">>
    /\ Len(reports) = 11 /\ reports[8] = "    \"lhs\": \"v1\","
    /\ visits[1].outcome = "diffed"

Absent(p) == Normalize(p) \notin DOMAIN files
Parsed(p) == ParseJson(files[Normalize(p)])

\* C19: when both files load, compareApiResponses logs "No differences
\* found between <f1> and <f2>. The responses match." if and only if the two
\* parsed values are structurally equal, and otherwise "Differences found
\* between <f1> and <f2>:" followed by the diff as 2-space-indented JSON;
\* exactly one of the two reports is logged.
C19_MatchIffEqual ==
    (CallEnded /\ HoldsJson(cargs[1]) /\ HoldsJson(cargs[2])) =>
        IF Parsed(cargs[1]) = Parsed(cargs[2])
        THEN reports = <<"No differences found between " \o PathStr(cargs[1])
                         \o " and " \o PathStr(cargs[2]) \o ". The responses match.">>
        ELSE /\ reports # <<>>
             /\ reports[1] = "Differences found between " \o PathStr(cargs[1])
                             \o " and " \o PathStr(cargs[2]) \o ":"
             /\ Tail(reports) = StringifyDiff(Diff(Parsed(cargs[1]), Parsed(cargs[2])))

\* C20: compareApiResponses decides in priority order: both loads fail, it
\* logs only "Both files are missing: <f1> and <f2>"; only the first fails,
\* only "File missing in version 1: <f1>"; only the second fails, only "File
\* missing in version 2: <f2>"; in none of the three is the diff computed.
C20_PriorityOrder ==
    (CallEnded /\ (Absent(cargs[1]) \/ Absent(cargs[2]))) =>
        /\ visits[1].outcome = "notDiffed"
        /\ reports =
             IF Absent(cargs[1]) /\ Absent(cargs[2])
             THEN <<"Both files are missing: " \o PathStr(cargs[1]) \o " and "
                    \o PathStr(cargs[2])>>
             ELSE IF Absent(cargs[1])
             THEN <<"File missing in version 1: " \o PathStr(cargs[1])>>
             ELSE <<"File missing in version 2: " \o PathStr(cargs[2])>>

\* the batch is past the header write of this run
InBatchLoop == pc \in {"loop", "await", "row", "save"} \/ result = "true"
HeaderWrites ==
    {k \in 1..Len(fsOps) : fsOps[k] = [op |-> "writeFileSync",
         path |-> "apiResponses/" \o version \o "/response_times.csv"]}

\* C21: in one batch run the CSV header is written exactly once, before the
\* first request is issued; the timing rows follow it in config order, the
\* row of call k being appended once call k has completed and before call
\* k+1 is started.
C21_HeaderOnceRowsInOrder ==
    /\ ~InBatchLoop => (started = 0 /\ HeaderWrites = {})
    /\ InBatchLoop =>
          /\ Cardinality(HeaderWrites) = 1
          /\ CsvLines # <<>> /\ CsvLines[1] = "API-mei,response-jikan(ms)"
          /\ \A k \in 2..Len(CsvLines) : CsvLines[k] # CsvLines[1]
          /\ \A k \in 1..Len(TimingRows) :
                /\ k <= Len(calls) /\ k <= N
                /\ TimingRows[k] = config[k].name \o ",12"
          /\ Len(TimingRows) =
                IF pc \in {"await", "row"} THEN started - 1 ELSE started
          /\ Len(calls) = IF pc = "await" THEN started - 1 ELSE started

C21_Witness ==
    /\ pc = "await" /\ started = 2 /\ runs = 2
    /\ CsvLines = <<"API-mei,response-jikan(ms)", "B,12">>
    /\ config[2].name = "A"

\* the calls of this run made for endpoints named name, and those that succeeded
CallsOf(name) == {k \in 1..Len(calls) : calls[k].name = name}
OkCallsOf(name) == {k \in CallsOf(name) : calls[k].ok}
LastOf(S) == CHOOSE k \in S : \A j \in S : j <= k

\* C22: when two endpoints of one config share a name, after the batch
\* <outputDir>/<name>.json holds the response of the last endpoint of that
\* name whose request succeeded (a failed later duplicate leaves the earlier
\* response in place), and each duplicate has its own timing row.
C22_LastSuccessWins ==
    (pc = "exited" /\ result = "true") =>
        \A name \in {config[k].name : k \in 1..N} :
            Cardinality(CallsOf(name)) >= 2 =>
                /\ \A k \in CallsOf(name) : TimingRows[k] = name \o ",12"
                /\ OkCallsOf(name) # {} =>
                      /\ ResponseFile(name) \in DOMAIN files
                      /\ files[ResponseFile(name)] =
                            Stringify2(calls[LastOf(OkCallsOf(name))].body)

Reported(line) == \E k \in 1..Len(reports) : reports[k] = line

\* C23: in a scan of two directories a missing-file report is logged only
\* for a file that does not exist: the comparator, called for files that
\* both exist, logs none of "Both files are missing", "File missing in
\* version 1" and "File missing in version 2".
C23_MissingOnlyForAbsentFile ==
    Len(cargs) = 2 =>
        \A name \in ListingNames :
            LET file1 == PathJoin(version1Dir, name)
                file2 == PathJoin(version2Dir, name)
            IN  /\ ~Reported("Both files are missing: " \o PathStr(file1)
                             \o " and " \o PathStr(file2))
                /\ Reported("File missing in version 1: " \o PathStr(file1))
                      => file1 \notin DOMAIN files
                /\ Reported("File missing in version 2: " \o PathStr(file2))
                      => file2 \notin DOMAIN files

\* C24: the batch passes api.params, or an empty object when the endpoint
\* has none, to fetchApiResponse: the request of a POST endpoint without
\* params carries {} as its body, that of a POST endpoint with params
\* carries them, and that of a GET endpoint carries no body whether params
\* is configured or not.
C24_ParamsOrEmptyObject ==
    pc = "await" =>
        /\ Len(inflight) = 1
        /\ (config[i].method = "POST" /\ config[i].params = <<>>)
              => inflight[1].data = <<"{}">>
        /\ (config[i].method = "POST" /\ config[i].params # <<>>)
              => inflight[1].data = config[i].params
        /\ config[i].method = "GET" => inflight[1].data = <<>>

C24_Witness ==
    /\ pc = "await" /\ i = 2
    /\ config[1].method = "GET" /\ config[1].params = <<"p1">>
    /\ config[2].method = "POST" /\ config[2].params = <<>>
    /\ inflight = <<[url |-> "http://x/b", method |-> "POST",
                     headers |-> "Content-Type", data |-> <<"{}">>]>>

\* C25: after a fetch run for one version and a fetch run for another, each
\* having written its response files and response_times.csv into its own
\* output directory, compare on the two directories runs to completion,
\* reports every filename of the union once and returns 0.
C25_PipelinesCompose ==
    (/\ cpc \in {"exited", "crashed"}
     /\ PathJoin(version1Dir, "response_times.csv") \in DOMAIN files
     /\ PathJoin(version2Dir, "response_times.csv") \in DOMAIN files) =>
        /\ cpc = "exited" /\ cexit = 0
        /\ \A name \in ListingNames :
              InUnion(name) => Cardinality(VisitsOf(name)) = 1

\* positions in this run's log of the row appends and of the response writes
RowAppends == {k \in 1..Len(fsOps) : fsOps[k].op = "appendFileSync"}
ResponseWrites ==
    {k \in 1..Len(fsOps) :
        /\ fsOps[k].op = "writeFileSync"
        /\ fsOps[k].path # "apiResponses/" \o version \o "/response_times.csv"}

\* C26: in every state of a batch run, response files written <= timing
\* rows appended <= requests started <= N, the requests started exceed the
\* rows by at most 1, and the response file of call k is written after the
\* timing row of call k.
C26_Counters ==
    /\ Cardinality(ResponseWrites) <= Cardinality(RowAppends)
    /\ Cardinality(RowAppends) <= started
    /\ started <= N
    /\ started - Cardinality(RowAppends) <= 1
    /\ saved = Cardinality(ResponseWrites)
    /\ \A w \in ResponseWrites :
          LET k == Cardinality({r \in RowAppends : r < w})
          IN  /\ k >= 1 /\ (w - 1) \in RowAppends
              /\ fsOps[w].path = "apiResponses/" \o version \o "/"
                                 \o config[k].name \o ".json"

C26_Witness ==
    /\ pc = "await" /\ started = 2 /\ N = 2
    /\ Cardinality(RowAppends) = 1 /\ Cardinality(ResponseWrites) = 1
    /\ fsOps[Len(fsOps)] = [op |-> "writeFileSync", path |-> "apiResponses/v1/A.json"]

\* C27: when the config file does not exist, the batch returns false and
\* leaves every file as it was (response_times.csv neither created nor
\* truncated, no response file written); the run's only file system effect
\* is main's creation of ./apiResponses/<version> when it was absent.
C27_AbsentConfigLeavesOutput ==
    /\ [][(ArgsPresent /\ ~configFile.exists /\ pc # "exited") =>
            /\ files' = files
            /\ dirs' = IF pc = "mkdir" /\ <<"apiResponses", version>> \notin dirs
                       THEN dirs \cup {<<"apiResponses">>, <<"apiResponses", version>>}
                       ELSE dirs
            /\ pc = "load" =>
                  (pc' = "exited" /\ result' = "false" /\ exitCode' = 1)]_vars
    /\ []((ArgsPresent /\ ~configFile.exists) =>
            /\ pc \in {"main", "mkdir", "load", "exited"}
            /\ started = 0
            /\ \A k \in 1..Len(fsOps) : fsOps[k].op \in {"existsSync", "mkdirSync"})

C27_Witness ==
    /\ pc = "exited" /\ result = "false" /\ ~configFile.exists /\ runs = 2
    /\ CsvLines = <<"API-mei,response-jikan(ms)", "A,12">>
    /\ <<"apiResponses", "v1", "A.json">> \in DOMAIN files
    /\ fsOps = <<[op |-> "existsSync", path |-> "./apiResponses/v1"],
                 [op |-> "existsSync", path |-> "config.json"]>>

\* C28: for the same directory contents, compareDirectories(d2, d1) reports
\* "File missing in version 2" for exactly the filenames for which
\* compareDirectories(d1, d2) reports "File missing in version 1", and the
\* other way round, and both report a match for the same filenames.
C28_SymmetricUpToRelabelling ==
    (cargs = <<Dir2, Dir1>> /\ cpc \in {"exited", "crashed"}) =>
        \A name \in ListingNames :
            LET f1 == PathStr(PathJoin(Dir1, name))
                f2 == PathStr(PathJoin(Dir2, name))
            IN  /\ Reported("File missing in version 1: " \o f1)
                      <=> Reported("File missing in version 2: " \o f1)
                /\ Reported("File missing in version 2: " \o f2)
                      <=> Reported("File missing in version 1: " \o f2)
                /\ Reported("No differences found between " \o f1 \o " and "
                            \o f2 \o ". The responses match.")
                      <=> Reported("No differences found between " \o f2
                                   \o " and " \o f1 \o ". The responses match.")

\* the batch has returned true after one settled request per endpoint, in
\* config order
BatchDone ==
    /\ pc = "exited" /\ result = "true"
    /\ started = N /\ Len(calls) = N /\ inflight = <<>>
    /\ \A k \in 1..N : calls[k].name = config[k].name

\* C29: once the config has loaded, unless some request stays pending for
\* ever, the batch eventually returns true having issued exactly one request
\* per configured endpoint (none retried, none skipped); and while a request
\* is pending no later endpoint is requested.
C29_Terminates ==
    /\ (<>[](pc = "await")) \/ ((pc = "header") ~> BatchDone)
    /\ []((pc = "exited" /\ result = "true") => BatchDone)
    /\ [](pc = "await" => (Len(inflight) = 1 /\ started = i /\ Len(calls) = i - 1))
    /\ [][started' # started =>
            (pc = "loop" /\ inflight = <<>> /\ started' = started + 1
             /\ Len(calls) = started)]_vars

C29_Witness ==
    /\ BatchDone /\ N = 2
    /\ ~calls[1].ok /\ calls[2].ok

\* the call the batch is about to save succeeded
LastCallOk == calls # <<>> /\ calls[Len(calls)].ok

\* C30: over any sequence of batch runs into the same output directory,
\* response_times.csv holds after a run the header and the timing rows of
\* that run only, and response files are never deleted: every step leaves
\* each response file as it is, except the save step of a successful call,
\* after which <name>.json holds that call's response. So the directory
\* holds, for every name that succeeded in any run, the response of the most
\* recent successful call of that name.
C30_CsvOfLastRunFilesKept ==
    /\ []((pc = "exited" /\ result = "true") =>
            /\ Len(CsvLines) = N + 1
            /\ CsvLines[1] = "API-mei,response-jikan(ms)"
            /\ \A k \in 1..N : CsvLines[k + 1] = calls[k].name \o ",12")
    /\ [][\A name \in {"A", "B"} :
            LET p == <<"apiResponses", "v1", name \o ".json">>
            IN  IF pc = "save" /\ config[i].name = name /\ LastCallOk
                THEN /\ p \in DOMAIN files'
                     /\ files'[p] = Stringify2(calls[Len(calls)].body)
                ELSE /\ p \in DOMAIN files' <=> p \in DOMAIN files
                     /\ p \in DOMAIN files => files'[p] = files[p]]_vars

====
